---------------------------- MODULE Spec2Model ----------------------------
(***************************************************************************)
(* A model of the map-of-reddit world map component                        *)
(* (src/app/components/WorldMap.tsx, src/app/components/InfoPanel.tsx):    *)
(*   - makeContinuous, the antimeridian corrector of polygon rings;        *)
(*   - the selection state (country / city / place), the highlighted       *)
(*     country path and the styles of the country paths;                   *)
(*   - the city / place markers rebuilt from zoom and selection.           *)
(* Every event handler (Leaflet click / hover, panel buttons, Escape,      *)
(* zoomend, completion of the geometry fetch) is one atomic action: the    *)
(* browser runs them one at a time and React re-renders in between.        *)
(***************************************************************************)
EXTENDS Integers, Sequences, FiniteSets, TLC

VARIABLES
    selected,          \* useState: [country, city, place], each NULL or an entity
    zoom,              \* useState zoom, as of the last render
    pendingZoom,       \* the value of a setZoom call React has not rendered yet
    effectDue,         \* a render changed zoom and the marker effect has not run yet
    zoomRef,           \* useRef zoomRef
    mapZoom,           \* map.getZoom() of the live map
    zoomAnim,          \* the level a zoomIn() / zoomOut() of the live map is heading for
    selectedLayerRef,  \* useRef: the highlighted path (NoLayer = null)
    countryLayersRef,  \* useRef Map: country id key -> path
    geoFeatures,       \* feature ids of the paths created by L.geoJSON, in order
    style,             \* path -> [fillOpacity, weight] (Leaflet path options)
    cityMarkers,       \* layers of cityGroupRef, in the order they were added
    placeMarkers,      \* layers of placeGroupRef, in the order they were added
    lastOp,            \* history: the step that ran last and its arguments
    styleLog,          \* history: the path styles after each setStyle of that handler
    backRun,           \* history: the run of consecutive handleBack calls
    ring,              \* makeContinuous: the input ring
    out,               \* makeContinuous: the returned ring
    ringPc,            \* "input" before the call, "done" after it
    mapRef,            \* useRef: the live L.Map instance (NoMap = null)
    mapCount,          \* L.Map instances created so far, numbered 1..mapCount
    removed,           \* the instances map.remove() was called on
    fetches,           \* instance -> state of the fetch its mount effect started
    fetched,           \* history: instance -> the feature ids its fetch answered with
    layerMap,          \* path -> the instance its L.geoJSON call was made for
    mapLayers,         \* the instances whose layer table holds a GeoJSON layer
    geoLayerRef        \* useRef: instance of the last GeoJSON layer stored (NoMap = null)

zoomVars == <<zoom, pendingZoom, effectDue, zoomRef, mapZoom, zoomAnim>>
uiVars == <<selected, zoom, pendingZoom, effectDue, zoomRef, mapZoom, zoomAnim,
            selectedLayerRef, countryLayersRef, geoFeatures, style, cityMarkers,
            placeMarkers, lastOp, styleLog, backRun>>
ringVars == <<ring, out, ringPc>>
lifeVars == <<mapRef, mapCount, removed, fetches, fetched, layerMap, mapLayers,
              geoLayerRef>>
vars == <<selected, zoom, pendingZoom, effectDue, zoomRef, mapZoom, zoomAnim,
          selectedLayerRef, countryLayersRef, geoFeatures, style, cityMarkers,
          placeMarkers, lastOp, styleLog, backRun, ring, out, ringPc, mapRef,
          mapCount, removed, fetches, fetched, layerMap, mapLayers, geoLayerRef>>

NULL == "null"
NoLayer == 0
NoMap == 0
NoZoom == 0

Min(a, b) == IF a < b THEN a ELSE b

(***************************************************************************)
(* The dataset of @/app/data/subreddits: entities are named by a handle    *)
(* (object identity) and their fields are looked up in the tables below.   *)
(* Names are unique within their parent only: two countries own a city     *)
(* "Springfield", each with a place "Downtown".  Country ids are digit     *)
(* strings, written as sequences of digits.  Subscriber counts sit on and  *)
(* around the label thresholds (100000, 30000, 3000).                      *)
(***************************************************************************)
countrySubreddits == <<"AF", "US">>

CountryData ==
    [AF |-> [id |-> <<0, 0, 4>>, name |-> "Afghanistan", subreddit |-> "afghanistan",
             subscribers |-> 60000, cities |-> <<"af_spring", "af_kabul">>],
     US |-> [id |-> <<8, 4, 0>>, name |-> "United States", subreddit |-> "usa",
             subscribers |-> 900000, cities |-> <<"us_spring">>]]

CityData ==
    [af_spring |-> [name |-> "Springfield", subreddit |-> "springfield_af",
                    subscribers |-> 100000, places |-> <<"af_down", "af_up">>],
     af_kabul  |-> [name |-> "Kabul", subreddit |-> "kabul",
                    subscribers |-> 30000, places |-> <<>>],
     us_spring |-> [name |-> "Springfield", subreddit |-> "springfield",
                    subscribers |-> 20000, places |-> <<"us_down">>]]

PlaceData ==
    [af_down |-> [name |-> "Downtown", subreddit |-> "downtown_af", subscribers |-> 3000],
     af_up   |-> [name |-> "Uptown", subreddit |-> "uptown_af", subscribers |-> 1000],
     us_down |-> [name |-> "Downtown", subreddit |-> "downtown", subscribers |-> 2000]]

Range(s) == {s[i] : i \in 1..Len(s)}

Countries == Range(countrySubreddits)
Cities(c) == Range(CountryData[c].cities)
Places(ci) == Range(CityData[ci].places)

\* countryMap.get(id): the country with that id, NULL (undefined) when absent
countryMap(id) ==
    IF \E c \in Countries : CountryData[c].id = id
    THEN CHOOSE c \in Countries : CountryData[c].id = id
    ELSE NULL

(***************************************************************************)
(* Path styles.  fillOpacity is in hundredths, weight in tenths.           *)
(***************************************************************************)
DefaultStyle   == [fillOpacity |-> 8, weight |-> 10]
HighlightStyle == [fillOpacity |-> 20, weight |-> 20]
HoverStyle     == [fillOpacity |-> 30, weight |-> 15]
HiddenStyle    == [fillOpacity |-> 0, weight |-> 0]

\* path.setStyle(s) applied to the style table st
setStyle(st, layer, s) == [st EXCEPT ![layer] = s]

\* the promise of the fetch started by the last run of the mount effect
fetchState == fetches[mapCount]

Layers == 1..Len(geoFeatures)
\* the country a path was created for (onEachFeature), NULL for an unmapped feature
LayerCountry(l) == countryMap(geoFeatures[l])
\* the paths that got handlers in onEachFeature
Interactive == {l \in Layers : LayerCountry(l) # NULL}
\* the paths on the live map: the only ones a pointer event can reach
OnLiveMap == {l \in Layers : layerMap[l] = mapRef /\ mapRef \in mapLayers}


(***************************************************************************)
(* Geometry registration: L.geoJSON's style option and onEachFeature.      *)
(***************************************************************************)
\* Map.prototype.set
MapSet(m, k, v) == [x \in (DOMAIN m) \cup {k} |-> IF x = k THEN v ELSE m[x]]

\* id.replace(/^0+/, "")
RECURSIVE StripZeros(_)
StripZeros(id) ==
    IF id # <<>> /\ Head(id) = 0 THEN StripZeros(Tail(id)) ELSE id

\* country.id.replace(/^0+/, "") || "0"
StrippedId(id) == IF StripZeros(id) = <<>> THEN <<0>> ELSE StripZeros(id)

\* onEachFeature for feature l of the list fs, acting on the registry reg
onEachFeature(reg, fs, l) ==
    LET country == countryMap(fs[l]) IN
    IF country = NULL THEN reg
    ELSE MapSet(MapSet(reg, CountryData[country].id, l),
                StrippedId(CountryData[country].id), l)

RECURSIVE RegisterFeatures(_, _, _)
RegisterFeatures(reg, fs, l) ==
    IF l > Len(fs) THEN reg
    ELSE RegisterFeatures(onEachFeature(reg, fs, l), fs, l + 1)

\* the style option of L.geoJSON
InitialStyle(fid) == IF countryMap(fid) # NULL THEN DefaultStyle ELSE HiddenStyle

(***************************************************************************)
(* The marker rebuild effect (useEffect on [zoom, selected]).              *)
(***************************************************************************)
MinZoom == 2
MaxZoom == 19
DEFAULT_ZOOM == 3
CityMinZoom == 4
PlaceMinZoom == 10
\* Infinity, as a label threshold no subscriber count reaches
Infinity == -1

\* labelMinSubs with the two subscriber thresholds exchanged
labelMinSubsSwapped(z) ==
    IF z >= 10 THEN 0 ELSE IF z >= 8 THEN 100000 ELSE IF z >= 6 THEN 30000 ELSE Infinity

labelMinSubs(z) ==
    IF z >= 10 THEN 0 ELSE IF z >= 8 THEN 30000 ELSE IF z >= 6 THEN 100000 ELSE Infinity

\* placeLabelMin without the band that asks for 3000 subscribers
placeLabelMinNoBand(z) ==
    IF z >= 12 THEN 0 ELSE Infinity

placeLabelMin(z) ==
    IF z >= 14 THEN 0 ELSE IF z >= 12 THEN 3000 ELSE Infinity

\* subscribers >= threshold, the threshold possibly Infinity
AtLeast(subs, min) == min # Infinity /\ subs >= min

RECURSIVE Concat(_)
Concat(ss) == IF ss = <<>> THEN <<>> ELSE Head(ss) \o Concat(Tail(ss))

cityIsActive(sel, country, city) ==
    /\ sel.city # NULL
    /\ CityData[sel.city].name = CityData[city].name
    /\ sel.country # NULL
    /\ CountryData[sel.country].id = CountryData[country].id

placeIsActive(sel, city, place) ==
    /\ sel.place # NULL
    /\ PlaceData[sel.place].name = PlaceData[place].name
    /\ sel.city # NULL
    /\ CityData[sel.city].name = CityData[city].name

\* one L.circleMarker of the city loop with its tooltip
CityMarker(z, sel, country, city) ==
    LET permanent == AtLeast(CityData[city].subscribers, labelMinSubs(z)) IN
    [country |-> country, city |-> city,
     isActive |-> cityIsActive(sel, country, city),
     permanent |-> permanent,
     tooltip |-> IF permanent THEN <<CityData[city].name>>
                 ELSE <<"r/", CityData[city].subreddit>>]

\* one L.circleMarker of the place loop with its tooltip
PlaceMarker(z, sel, country, city, place) ==
    LET permanent == AtLeast(PlaceData[place].subscribers, placeLabelMin(z)) IN
    [country |-> country, city |-> city, place |-> place,
     isActive |-> placeIsActive(sel, city, place),
     permanent |-> permanent,
     tooltip |-> IF permanent THEN <<PlaceData[place].name>>
                 ELSE <<"r/", PlaceData[place].subreddit>>]

\* the city loop entered above zoom 4 only
CityPlanAboveFour(z, sel) ==
    IF z > CityMinZoom
    THEN Concat([i \in 1..Len(countrySubreddits) |->
            LET country == countrySubreddits[i]
                cs == CountryData[country].cities IN
            [j \in 1..Len(cs) |-> CityMarker(z, sel, country, cs[j])]])
    ELSE <<>>

CityPlan(z, sel) ==
    IF z >= CityMinZoom
    THEN Concat([i \in 1..Len(countrySubreddits) |->
            LET country == countrySubreddits[i]
                cs == CountryData[country].cities IN
            [j \in 1..Len(cs) |-> CityMarker(z, sel, country, cs[j])]])
    ELSE <<>>

PlacePlan(z, sel) ==
    IF z >= PlaceMinZoom
    THEN Concat([i \in 1..Len(countrySubreddits) |->
            LET country == countrySubreddits[i]
                cs == CountryData[country].cities IN
            Concat([j \in 1..Len(cs) |->
                LET ps == CityData[cs[j]].places IN
                [k \in 1..Len(ps) |-> PlaceMarker(z, sel, country, cs[j], ps[k])]])])
    ELSE <<>>

\* the effect without clearLayers(): the new markers are added to the old ones
RebuildMarkersNoClear(z) ==
    /\ cityMarkers' = cityMarkers \o CityPlan(z, selected')
    /\ placeMarkers' = placeMarkers \o PlacePlan(z, selected')

\* clearLayers() on both groups, then the two loops, at zoom z and the new selection
RebuildMarkers(z) ==
    /\ cityMarkers' = CityPlan(z, selected')
    /\ placeMarkers' = PlacePlan(z, selected')

(***************************************************************************)
(* Selection: actionsRef.current.*, resetSelectedLayer, handleBack,        *)
(* handleClose.  Each states its effect on selected, selectedLayerRef and  *)
(* style, and logs the style table after each setStyle call.               *)
(***************************************************************************)
NoSelection == [country |-> NULL, city |-> NULL, place |-> NULL]

\* selectCountry highlighting the new path before restoring the previous one
selectCountryHighlightFirst(id, layer) ==
    LET country == countryMap(id)
        unhighlight == selectedLayerRef # NoLayer /\ selectedLayerRef # layer
        s1 == setStyle(style, layer, HighlightStyle)
        s2 == IF unhighlight THEN setStyle(s1, selectedLayerRef, DefaultStyle)
              ELSE s1
    IN  IF country = NULL
        THEN /\ UNCHANGED <<selected, selectedLayerRef, style>>
             /\ styleLog' = <<>>
        ELSE /\ selectedLayerRef' = layer
             /\ style' = s2
             /\ styleLog' = IF unhighlight THEN <<s1, s2>> ELSE <<s1>>
             /\ selected' = [country |-> country, city |-> NULL, place |-> NULL]

\* selectCountry replacing the country only, city and place kept
selectCountryKeepsCity(id, layer) ==
    LET country == countryMap(id)
        unhighlight == selectedLayerRef # NoLayer /\ selectedLayerRef # layer
        s1 == IF unhighlight THEN setStyle(style, selectedLayerRef, DefaultStyle)
              ELSE style
        s2 == setStyle(s1, layer, HighlightStyle)
    IN  IF country = NULL
        THEN /\ UNCHANGED <<selected, selectedLayerRef, style>>
             /\ styleLog' = <<>>
        ELSE /\ selectedLayerRef' = layer
             /\ style' = s2
             /\ styleLog' = IF unhighlight THEN <<s1, s2>> ELSE <<s2>>
             /\ selected' = [selected EXCEPT !.country = country]

\* selectCountry without the early return on an unknown id
selectCountryNoLookupCheck(id, layer) ==
    LET country == countryMap(id)
        unhighlight == selectedLayerRef # NoLayer /\ selectedLayerRef # layer
        s1 == IF unhighlight THEN setStyle(style, selectedLayerRef, DefaultStyle)
              ELSE style
        s2 == setStyle(s1, layer, HighlightStyle)
    IN  /\ selectedLayerRef' = layer
        /\ style' = s2
        /\ styleLog' = IF unhighlight THEN <<s1, s2>> ELSE <<s2>>
        /\ selected' = [country |-> country, city |-> NULL, place |-> NULL]

selectCountry(id, layer) ==
    LET country == countryMap(id)
        unhighlight == selectedLayerRef # NoLayer /\ selectedLayerRef # layer
        s1 == IF unhighlight THEN setStyle(style, selectedLayerRef, DefaultStyle)
              ELSE style
        s2 == setStyle(s1, layer, HighlightStyle)
    IN  IF country = NULL
        THEN /\ UNCHANGED <<selected, selectedLayerRef, style>>
             /\ styleLog' = <<>>
        ELSE /\ selectedLayerRef' = layer
             /\ style' = s2
             /\ styleLog' = IF unhighlight THEN <<s1, s2>> ELSE <<s2>>
             /\ selected' = [country |-> country, city |-> NULL, place |-> NULL]

\* selectCity dropping the highlight of the previously selected country
selectCityResetsLayer(country, city) ==
    /\ selected' = [country |-> country, city |-> city, place |-> NULL]
    /\ IF selectedLayerRef # NoLayer
       THEN /\ style' = setStyle(style, selectedLayerRef, DefaultStyle)
            /\ selectedLayerRef' = NoLayer
            /\ styleLog' = <<style'>>
       ELSE /\ UNCHANGED <<selectedLayerRef, style>>
            /\ styleLog' = <<>>

selectCity(country, city) ==
    /\ selected' = [country |-> country, city |-> city, place |-> NULL]
    /\ UNCHANGED <<selectedLayerRef, style>>
    /\ styleLog' = <<>>

selectPlace(country, city, place) ==
    /\ selected' = [country |-> country, city |-> city, place |-> place]
    /\ UNCHANGED <<selectedLayerRef, style>>
    /\ styleLog' = <<>>

\* resetSelectedLayer forgetting the stored path without restoring its style
resetSelectedLayerKeepsStyle ==
    IF selectedLayerRef # NoLayer
    THEN /\ UNCHANGED style
         /\ selectedLayerRef' = NoLayer
         /\ styleLog' = <<>>
    ELSE /\ UNCHANGED <<selectedLayerRef, style>>
         /\ styleLog' = <<>>

resetSelectedLayer ==
    IF selectedLayerRef # NoLayer
    THEN /\ style' = setStyle(style, selectedLayerRef, DefaultStyle)
         /\ selectedLayerRef' = NoLayer
         /\ styleLog' = <<style'>>
    ELSE /\ UNCHANGED <<selectedLayerRef, style>>
         /\ styleLog' = <<>>

\* handleBack whose first branch clears the city instead of the place
handleBackDropsCity ==
    IF selected.place # NULL
    THEN /\ selected' = [selected EXCEPT !.city = NULL]
         /\ UNCHANGED <<selectedLayerRef, style>>
         /\ styleLog' = <<>>
    ELSE IF selected.city # NULL
    THEN /\ selected' = [selected EXCEPT !.city = NULL, !.place = NULL]
         /\ UNCHANGED <<selectedLayerRef, style>>
         /\ styleLog' = <<>>
    ELSE /\ resetSelectedLayer
         /\ selected' = NoSelection

\* handleBack whose city branch also unhighlights the country path
handleBackResetsAtCity ==
    IF selected.place # NULL
    THEN /\ selected' = [selected EXCEPT !.place = NULL]
         /\ UNCHANGED <<selectedLayerRef, style>>
         /\ styleLog' = <<>>
    ELSE IF selected.city # NULL
    THEN /\ resetSelectedLayer
         /\ selected' = [selected EXCEPT !.city = NULL, !.place = NULL]
    ELSE /\ resetSelectedLayer
         /\ selected' = NoSelection

\* handleBack whose place branch clears the city together with the place
handleBackSkipsCity ==
    IF selected.place # NULL
    THEN /\ selected' = [selected EXCEPT !.city = NULL, !.place = NULL]
         /\ UNCHANGED <<selectedLayerRef, style>>
         /\ styleLog' = <<>>
    ELSE IF selected.city # NULL
    THEN /\ selected' = [selected EXCEPT !.city = NULL, !.place = NULL]
         /\ UNCHANGED <<selectedLayerRef, style>>
         /\ styleLog' = <<>>
    ELSE /\ resetSelectedLayer
         /\ selected' = NoSelection

handleBack ==
    IF selected.place # NULL
    THEN /\ selected' = [selected EXCEPT !.place = NULL]
         /\ UNCHANGED <<selectedLayerRef, style>>
         /\ styleLog' = <<>>
    ELSE IF selected.city # NULL
    THEN /\ selected' = [selected EXCEPT !.city = NULL, !.place = NULL]
         /\ UNCHANGED <<selectedLayerRef, style>>
         /\ styleLog' = <<>>
    ELSE /\ resetSelectedLayer
         /\ selected' = NoSelection

handleClose ==
    /\ resetSelectedLayer
    /\ selected' = NoSelection


(***************************************************************************)
(* makeContinuous.  A point is <<longitude, latitude>>.                    *)
(***************************************************************************)
RECURSIVE makeContinuousLoopNoCarry(_, _, _, _)
\* the loop with the offset applied at a crossing but not carried on
makeContinuousLoopNoCarry(r, i, offset, o) ==
    IF i > Len(r) THEN o
    ELSE LET diff == r[i][1] - r[i - 1][1]
             off  == IF diff > 180 THEN -360
                     ELSE IF diff < -180 THEN 360
                     ELSE 0
         IN  makeContinuousLoopNoCarry(r, i + 1, off,
                                       Append(o, <<r[i][1] + off, r[i][2]>>))

RECURSIVE makeContinuousLoopCorrectedDiff(_, _, _, _)
\* the loop with diff taken from the corrected previous point
makeContinuousLoopCorrectedDiff(r, i, offset, o) ==
    IF i > Len(r) THEN o
    ELSE LET diff == r[i][1] - o[i - 1][1]
             off  == IF diff > 180 THEN offset - 360
                     ELSE IF diff < -180 THEN offset + 360
                     ELSE offset
         IN  makeContinuousLoopCorrectedDiff(r, i + 1, off,
                                             Append(o, <<r[i][1] + off, r[i][2]>>))

RECURSIVE makeContinuousLoopOneWay(_, _, _, _)
\* the loop without the branch for a step above 180
makeContinuousLoopOneWay(r, i, offset, o) ==
    IF i > Len(r) THEN o
    ELSE LET diff == r[i][1] - r[i - 1][1]
             off  == IF diff < -180 THEN offset + 360 ELSE offset
         IN  makeContinuousLoopOneWay(r, i + 1, off,
                                      Append(o, <<r[i][1] + off, r[i][2]>>))

RECURSIVE makeContinuousLoopInclusive(_, _, _, _)
\* the loop with the thresholds compared by >= and <=
makeContinuousLoopInclusive(r, i, offset, o) ==
    IF i > Len(r) THEN o
    ELSE LET diff == r[i][1] - r[i - 1][1]
             off  == IF diff >= 180 THEN offset - 360
                     ELSE IF diff <= -180 THEN offset + 360
                     ELSE offset
         IN  makeContinuousLoopInclusive(r, i + 1, off,
                                         Append(o, <<r[i][1] + off, r[i][2]>>))

RECURSIVE makeContinuousLoop(_, _, _, _)
\* the for loop from index i on, with the running offset and the output so far
makeContinuousLoop(r, i, offset, o) ==
    IF i > Len(r) THEN o
    ELSE LET diff == r[i][1] - r[i - 1][1]
             off  == IF diff > 180 THEN offset - 360
                     ELSE IF diff < -180 THEN offset + 360
                     ELSE offset
         IN  makeContinuousLoop(r, i + 1, off, Append(o, <<r[i][1] + off, r[i][2]>>))

makeContinuous(r) ==
    IF Len(r) < 2 THEN r ELSE makeContinuousLoop(r, 2, 0, <<r[1]>>)

(***************************************************************************)
(* Bounds and inputs.                                                      *)
(***************************************************************************)
\* longest ring given to makeContinuous
MaxRingLen == 4
\* consecutive handleBack calls told apart by the history
MaxBackRun == 3
\* L.Map instances one component creates (the first mount and the re-mounts)
MaxMounts == 3

LonValues == {-180, -170, 0, 170, 180, 400}
LatValues == {-10, 10}
Points == LonValues \X LatValues
Rings == UNION {[1..n -> Points] : n \in 0..MaxRingLen}

\* feature id lists the geometry provider may answer with
GeoResponses == { << <<0, 0, 4>>, <<8, 4, 0>>, <<0, 1, 0>> >>,
                  << <<8, 4, 0>>, <<4>> >> }

\* ids selectCountry may be called with: the two of the dataset and an unknown one
ApiIds == { <<0, 0, 4>>, <<8, 4, 0>>, <<4>> }

\* levels the zoom gestures of Spec end at: city markers only, and place
\* markers too
ZoomLevels == {4, 10}

(***************************************************************************)
(* History kept for the properties.                                        *)
(***************************************************************************)
\* n calls in a row so far (saturating at MaxBackRun), and the selection, the
\* highlighted path and the styles the first of them started from
NoBackRun == [n |-> 0, sel |-> NoSelection, ref |-> NoLayer, st |-> <<>>]

\* 0 nothing selected, 1 country, 2 city, 3 place
Level(sel) ==
    IF sel.place # NULL THEN 3
    ELSE IF sel.city # NULL THEN 2
    ELSE IF sel.country # NULL THEN 1
    ELSE 0

\* a handler other than handleBack ran, with these arguments
Ran(op, args) ==
    /\ lastOp' = [name |-> op, args |-> args]
    /\ backRun' = NoBackRun

RanBack ==
    /\ lastOp' = [name |-> "back", args |-> <<>>]
    /\ backRun' = IF backRun.n = 0
                  THEN [n |-> 1, sel |-> selected,
                        ref |-> selectedLayerRef, st |-> style]
                  ELSE [backRun EXCEPT !.n = Min(@ + 1, MaxBackRun)]

(***************************************************************************)
(* Initial state: the component after its first render and mount effects.  *)
(***************************************************************************)
UIInit ==
    /\ selected = NoSelection
    /\ zoom = DEFAULT_ZOOM
    /\ pendingZoom = NoZoom
    /\ effectDue = FALSE
    /\ zoomRef = DEFAULT_ZOOM
    /\ mapZoom = DEFAULT_ZOOM
    /\ zoomAnim = NoZoom
    /\ selectedLayerRef = NoLayer
    /\ countryLayersRef = <<>>
    /\ geoFeatures = <<>>
    /\ style = <<>>
    /\ cityMarkers = CityPlan(DEFAULT_ZOOM, NoSelection)
    /\ placeMarkers = PlacePlan(DEFAULT_ZOOM, NoSelection)
    /\ lastOp = [name |-> "init", args |-> <<>>]
    /\ styleLog = <<>>
    /\ backRun = NoBackRun

\* the mount effect has run once: one live map, its fetch pending
LifeInit ==
    /\ mapRef = 1
    /\ mapCount = 1
    /\ removed = {}
    /\ fetches = <<"pending">>
    /\ fetched = << <<>> >>
    /\ layerMap = <<>>
    /\ mapLayers = {}
    /\ geoLayerRef = NoMap

Init ==
    /\ UIInit
    /\ LifeInit
    /\ ring = <<>>
    /\ out = <<>>
    /\ ringPc = "input"

(***************************************************************************)
(* Actions: one per event handler and one per step React takes on its own. *)
(* A click or key handler that calls setSelected is followed at once by    *)
(* React's render and by the marker effect (a discrete event is flushed    *)
(* synchronously); only updates of that event are rendered, so a setZoom   *)
(* still waiting stays queued.  zoomend comes from Leaflet's animation     *)
(* end, not from a discrete event: its setZoom is rendered in a later      *)
(* step and the marker effect runs in a step after that.                   *)
(***************************************************************************)
\* the render of a setSelected call and the marker effect that follows it
SyncRender ==
    /\ RebuildMarkers(zoom)
    /\ effectDue' = FALSE
    /\ UNCHANGED <<zoom, pendingZoom, zoomRef, mapZoom, zoomAnim>>

\* what .addTo(map) did (line 190).  On a live map it returns.  On a removed
\* map it is Leaflet's business: it returns, it throws before the layer
\* is in the map's layer table, or it throws after.  "unreached" when
\* L.geoJSON threw before it.
AddToOutcomes == {"returned", "threw", "storedThenThrew", "unreached"}

\* the second .then callback of the fetch started for instance m, with the
\* features fs.  Nothing in it asks whether m was removed.  L.geoJSON goes
\* through the features in order, creating a path and calling onEachFeature
\* for each; bad is the index of the first feature whose geometry type Leaflet
\* does not know (fixGeom passes such a geometry on, line 46), 0 when there is
\* none.  At that feature L.geoJSON throws: nothing catches it, the paths and
\* registry entries of the features before it stay, and lines 190-191 are not
\* reached.  Line 191 stores the layer only when addTo returned.  Paths are
\* numbered in the order the L.geoJSON calls create them.
FetchResolve(m, fs, bad, addTo) ==
    LET created == IF bad = 0 THEN fs ELSE SubSeq(fs, 1, bad - 1) IN
    /\ fetches[m] = "pending"
    /\ bad \in 0..Len(fs)
    /\ addTo \in AddToOutcomes
    /\ (addTo = "unreached") <=> (bad # 0)
    /\ (bad = 0 /\ m \notin removed) => addTo = "returned"
    /\ fetches' = [fetches EXCEPT ![m] = "resolved"]
    /\ fetched' = [fetched EXCEPT ![m] = fs]
    /\ geoFeatures' = geoFeatures \o created
    /\ layerMap' = layerMap \o [l \in 1..Len(created) |-> m]
    /\ style' = style \o [l \in 1..Len(created) |-> InitialStyle(created[l])]
    /\ countryLayersRef' =
           RegisterFeatures(countryLayersRef, geoFeatures \o created,
                            Len(geoFeatures) + 1)
    /\ mapLayers' = IF addTo \in {"returned", "storedThenThrew"}
                    THEN mapLayers \cup {m}
                    ELSE mapLayers
    /\ geoLayerRef' = IF addTo = "returned" THEN m ELSE geoLayerRef
    /\ styleLog' = <<>>
    /\ Ran("fetchResolve", <<m, fs>>)
    /\ UNCHANGED <<selected, selectedLayerRef, cityMarkers, placeMarkers>>
    /\ UNCHANGED zoomVars
    /\ UNCHANGED <<mapRef, mapCount, removed>>
    /\ UNCHANGED ringVars

\* the fetch of instance m or its r.json() fails: no callback of the component runs
FetchReject(m) ==
    /\ fetches[m] = "pending"
    /\ fetches' = [fetches EXCEPT ![m] = "rejected"]
    /\ styleLog' = <<>>
    /\ Ran("fetchReject", <<m>>)
    /\ UNCHANGED <<selected, selectedLayerRef, countryLayersRef, geoFeatures, style,
                   cityMarkers, placeMarkers>>
    /\ UNCHANGED zoomVars
    /\ UNCHANGED <<mapRef, mapCount, removed, fetched, layerMap, mapLayers, geoLayerRef>>
    /\ UNCHANGED ringVars

\* path.on("click")
PathClick(l) ==
    /\ l \in Interactive
    /\ l \in OnLiveMap
    /\ selectCountry(CountryData[LayerCountry(l)].id, l)
    /\ Ran("pathClick", <<CountryData[LayerCountry(l)].id, l>>)
    /\ SyncRender
    /\ UNCHANGED <<countryLayersRef, geoFeatures>>
    /\ UNCHANGED ringVars
    /\ UNCHANGED lifeVars

\* path.on("mouseover")
PathMouseOver(l) ==
    /\ l \in Interactive
    /\ l \in OnLiveMap
    /\ IF selectedLayerRef # l
       THEN /\ style' = setStyle(style, l, HoverStyle)
            /\ styleLog' = <<style'>>
       ELSE /\ UNCHANGED style
            /\ styleLog' = <<>>
    /\ Ran("mouseover", <<l>>)
    /\ UNCHANGED <<selected, selectedLayerRef, countryLayersRef, geoFeatures,
                   cityMarkers, placeMarkers>>
    /\ UNCHANGED zoomVars
    /\ UNCHANGED ringVars
    /\ UNCHANGED lifeVars

\* the mouseout handler without the check against the highlighted path
PathMouseOutNoCheck(l) ==
    /\ l \in Interactive
    /\ l \in OnLiveMap
    /\ style' = setStyle(style, l, DefaultStyle)
    /\ styleLog' = <<style'>>
    /\ Ran("mouseout", <<l>>)
    /\ UNCHANGED <<selected, selectedLayerRef, countryLayersRef, geoFeatures,
                   cityMarkers, placeMarkers>>
    /\ UNCHANGED zoomVars
    /\ UNCHANGED ringVars
    /\ UNCHANGED lifeVars

\* path.on("mouseout")
PathMouseOut(l) ==
    /\ l \in Interactive
    /\ l \in OnLiveMap
    /\ IF selectedLayerRef # l
       THEN /\ style' = setStyle(style, l, DefaultStyle)
            /\ styleLog' = <<style'>>
       ELSE /\ UNCHANGED style
            /\ styleLog' = <<>>
    /\ Ran("mouseout", <<l>>)
    /\ UNCHANGED <<selected, selectedLayerRef, countryLayersRef, geoFeatures,
                   cityMarkers, placeMarkers>>
    /\ UNCHANGED zoomVars
    /\ UNCHANGED ringVars
    /\ UNCHANGED lifeVars

\* marker.on("click") of city marker m; the marker groups are on the live map
CityMarkerClick(m) ==
    /\ mapRef # NoMap
    /\ m \in 1..Len(cityMarkers)
    /\ selectCity(cityMarkers[m].country, cityMarkers[m].city)
    /\ Ran("cityMarkerClick", <<m>>)
    /\ SyncRender
    /\ UNCHANGED <<countryLayersRef, geoFeatures>>
    /\ UNCHANGED ringVars
    /\ UNCHANGED lifeVars

\* marker.on("click") of place marker m
PlaceMarkerClick(m) ==
    /\ mapRef # NoMap
    /\ m \in 1..Len(placeMarkers)
    /\ selectPlace(placeMarkers[m].country, placeMarkers[m].city, placeMarkers[m].place)
    /\ Ran("placeMarkerClick", <<m>>)
    /\ SyncRender
    /\ UNCHANGED <<countryLayersRef, geoFeatures>>
    /\ UNCHANGED ringVars
    /\ UNCHANGED lifeVars

\* InfoPanel: a button of the "Cities" list, wired to onCityClick
PanelCityClick(city) ==
    /\ selected.city = NULL /\ selected.place = NULL /\ selected.country # NULL
    /\ city \in Cities(selected.country)
    /\ selectCity(selected.country, city)
    /\ Ran("panelCityClick", <<city>>)
    /\ SyncRender
    /\ UNCHANGED <<countryLayersRef, geoFeatures>>
    /\ UNCHANGED ringVars
    /\ UNCHANGED lifeVars

\* InfoPanel: a button of the "Neighborhoods" list, wired to onPlaceClick
PanelPlaceClick(place) ==
    /\ selected.city # NULL /\ selected.place = NULL
    /\ place \in Places(selected.city)
    /\ selected.country # NULL
    /\ selectPlace(selected.country, selected.city, place)
    /\ Ran("panelPlaceClick", <<place>>)
    /\ SyncRender
    /\ UNCHANGED <<countryLayersRef, geoFeatures>>
    /\ UNCHANGED ringVars
    /\ UNCHANGED lifeVars

\* InfoPanel onBack, or the Escape key
Back ==
    /\ handleBack
    /\ RanBack
    /\ SyncRender
    /\ UNCHANGED <<countryLayersRef, geoFeatures>>
    /\ UNCHANGED ringVars
    /\ UNCHANGED lifeVars

\* InfoPanel onClose, or the "Reset View" button
Close ==
    /\ handleClose
    /\ Ran("close", <<>>)
    /\ SyncRender
    /\ UNCHANGED <<countryLayersRef, geoFeatures>>
    /\ UNCHANGED ringVars
    /\ UNCHANGED lifeVars

\* the levels Leaflet keeps the map within (minZoom, maxZoom)
LimitZoom(z) == IF z < MinZoom THEN MinZoom ELSE IF z > MaxZoom THEN MaxZoom ELSE z

\* a zoom button: mapRef.current?.zoomIn() / zoomOut(), by delta levels.  The
\* handler only asks Leaflet to zoom; with no live map the call is skipped, at
\* the limit Leaflet has nowhere to go, and while a zoom is under way Leaflet
\* ignores the request.
ZoomButton(name, delta) ==
    /\ zoomAnim' = IF /\ mapRef # NoMap
                      /\ zoomAnim = NoZoom
                      /\ LimitZoom(mapZoom + delta) # mapZoom
                   THEN LimitZoom(mapZoom + delta)
                   ELSE zoomAnim
    /\ styleLog' = <<>>
    /\ Ran(name, <<>>)
    /\ UNCHANGED <<selected, zoom, pendingZoom, effectDue, zoomRef, mapZoom,
                   selectedLayerRef, countryLayersRef, geoFeatures, style,
                   cityMarkers, placeMarkers>>
    /\ UNCHANGED ringVars
    /\ UNCHANGED lifeVars

\* the "+" button
ZoomIn == ZoomButton("zoomIn", 1)

\* the "-" button
ZoomOut == ZoomButton("zoomOut", -1)

\* map.on("zoomend") with map.getZoom() = z: the live map has reached level z
\* (wheel, double click, keyboard, box zoom, or the end of a button's zoom)
ZoomEnd(z) ==
    /\ mapRef # NoMap
    /\ z \in MinZoom..MaxZoom
    /\ mapZoom' = z
    /\ zoomAnim' = NoZoom
    /\ zoomRef' = z
    /\ pendingZoom' = z
    /\ styleLog' = <<>>
    /\ Ran("zoomend", <<z>>)
    /\ UNCHANGED <<selected, zoom, effectDue, selectedLayerRef, countryLayersRef,
                   geoFeatures, style, cityMarkers, placeMarkers>>
    /\ UNCHANGED ringVars
    /\ UNCHANGED lifeVars

\* the zoom a button asked for has ended
ZoomAnimEnd ==
    /\ zoomAnim # NoZoom
    /\ ZoomEnd(zoomAnim)

\* React takes up the queued setZoom.  Before it does, React runs the marker
\* effect still due from the previous render (at the zoom of that render),
\* whatever the queued value; the marker effect is due again if zoom changed.
\* A setZoom of the value zoom already has renders nothing more.
Render ==
    /\ pendingZoom # NoZoom
    /\ zoom' = pendingZoom
    /\ pendingZoom' = NoZoom
    /\ selected' = selected
    /\ IF effectDue
       THEN RebuildMarkers(zoom)
       ELSE UNCHANGED <<cityMarkers, placeMarkers>>
    /\ effectDue' = (pendingZoom # zoom)
    /\ lastOp' = [name |-> "render", args |-> <<>>]
    /\ styleLog' = <<>>
    /\ UNCHANGED <<zoomRef, mapZoom, zoomAnim, selectedLayerRef, countryLayersRef,
                   geoFeatures, style, backRun>>
    /\ UNCHANGED ringVars
    /\ UNCHANGED lifeVars

\* the marker effect of that render
MarkerEffect ==
    /\ effectDue
    /\ effectDue' = FALSE
    /\ selected' = selected
    /\ RebuildMarkers(zoom)
    /\ lastOp' = [name |-> "markerEffect", args |-> <<>>]
    /\ styleLog' = <<>>
    /\ UNCHANGED <<zoom, pendingZoom, zoomRef, mapZoom, zoomAnim, selectedLayerRef,
                   countryLayersRef, geoFeatures, style, backRun>>
    /\ UNCHANGED ringVars
    /\ UNCHANGED lifeVars

\* actionsRef.current.selectCountry called with any id and any path; an unknown
\* id returns before setSelected, so nothing is rendered
SelectCountryCall(id, l) ==
    /\ l \in Layers
    /\ selectCountry(id, l)
    /\ Ran("selectCountry", <<id, l>>)
    /\ IF countryMap(id) # NULL
       THEN SyncRender
       ELSE UNCHANGED <<cityMarkers, placeMarkers, zoomVars>>
    /\ UNCHANGED <<countryLayersRef, geoFeatures>>
    /\ UNCHANGED ringVars
    /\ UNCHANGED lifeVars

\* makeContinuous(ring)
Correct ==
    /\ ringPc = "input"
    /\ out' = makeContinuous(ring)
    /\ ringPc' = "done"
    /\ UNCHANGED ring
    /\ UNCHANGED uiVars
    /\ UNCHANGED lifeVars

(***************************************************************************)
(* The life cycle of the map surface: the cleanup of the mount effect and  *)
(* the effect running again on the same component (React keeps the refs    *)
(* and the state across such a re-mount).                                  *)
(***************************************************************************)
\* the cleanup of the mount effect: map.remove(); mapRef.current = null
Unmount ==
    /\ mapRef # NoMap
    /\ removed' = removed \cup {mapRef}
    /\ mapLayers' = mapLayers \ {mapRef}
    /\ mapRef' = NoMap
    /\ mapZoom' = NoZoom
    /\ zoomAnim' = NoZoom
    /\ styleLog' = <<>>
    /\ Ran("unmount", <<mapRef>>)
    /\ UNCHANGED <<selected, zoom, pendingZoom, effectDue, zoomRef, selectedLayerRef,
                   countryLayersRef, geoFeatures, style, cityMarkers, placeMarkers>>
    /\ UNCHANGED <<mapCount, fetches, fetched, layerMap, geoLayerRef>>
    /\ UNCHANGED ringVars

\* the mount effect running again: a new map at DEFAULT_ZOOM, new marker groups
\* (filled by the marker effect, which runs again after it), a new fetch
Mount ==
    /\ mapRef = NoMap
    /\ mapCount < MaxMounts
    /\ mapCount' = mapCount + 1
    /\ mapRef' = mapCount + 1
    /\ mapZoom' = DEFAULT_ZOOM
    /\ fetches' = Append(fetches, "pending")
    /\ fetched' = Append(fetched, <<>>)
    /\ selected' = selected
    /\ RebuildMarkers(zoom)
    /\ effectDue' = FALSE
    /\ styleLog' = <<>>
    /\ Ran("mount", <<mapCount + 1>>)
    /\ UNCHANGED <<zoom, pendingZoom, zoomRef, zoomAnim, selectedLayerRef,
                   countryLayersRef, geoFeatures, style>>
    /\ UNCHANGED <<removed, layerMap, mapLayers, geoLayerRef>>
    /\ UNCHANGED ringVars

(***************************************************************************)
(* Specifications.                                                         *)
(***************************************************************************)
Next ==
    \/ \E m \in 1..mapCount : \E fs \in GeoResponses : \E bad \in 0..Len(fs) :
           \E addTo \in AddToOutcomes : FetchResolve(m, fs, bad, addTo)
    \/ \E m \in 1..mapCount : FetchReject(m)
    \/ \E l \in Layers : PathClick(l)
    \/ \E l \in Layers : PathMouseOver(l)
    \/ \E l \in Layers : PathMouseOut(l)
    \/ \E m \in 1..Len(cityMarkers) : CityMarkerClick(m)
    \/ \E m \in 1..Len(placeMarkers) : PlaceMarkerClick(m)
    \/ \E city \in DOMAIN CityData : PanelCityClick(city)
    \/ \E place \in DOMAIN PlaceData : PanelPlaceClick(place)
    \/ Back
    \/ Close
    \/ \E z \in ZoomLevels : ZoomEnd(z)
    \/ Render
    \/ MarkerEffect

Spec == Init /\ [][Next]_vars

\* the program's events, and selectCountry as a function of any arguments
NextApi ==
    \/ Next
    \/ \E id \in ApiIds : \E l \in Layers : SelectCountryCall(id, l)

SpecApi == Init /\ [][NextApi]_vars

\* makeContinuous applied to every ring of the bounded input set
RingInit ==
    /\ UIInit
    /\ LifeInit
    /\ ring \in Rings
    /\ out = <<>>
    /\ ringPc = "input"

NextRing == Correct

SpecRing == RingInit /\ [][NextRing]_vars

\* zooming by the buttons and by gestures to every level, with the selection
\* changes that need no country path in between
NextZoom ==
    \/ ZoomIn
    \/ ZoomOut
    \/ ZoomAnimEnd
    \/ \E z \in MinZoom..MaxZoom : ZoomEnd(z)
    \/ Render
    \/ MarkerEffect
    \/ \E m \in 1..Len(cityMarkers) : CityMarkerClick(m)
    \/ \E m \in 1..Len(placeMarkers) : PlaceMarkerClick(m)
    \/ \E city \in DOMAIN CityData : PanelCityClick(city)
    \/ \E place \in DOMAIN PlaceData : PanelPlaceClick(place)
    \/ Back
    \/ Close

SpecZoom == Init /\ [][NextZoom]_vars

\* teardown, re-mount and the fetch of every map instance completing at any
\* later time
NextLifecycle ==
    \/ Unmount
    \/ Mount
    \/ \E m \in 1..mapCount : \E fs \in GeoResponses : \E bad \in 0..Len(fs) :
           \E addTo \in AddToOutcomes : FetchResolve(m, fs, bad, addTo)
    \/ \E m \in 1..mapCount : FetchReject(m)

SpecLifecycle == Init /\ [][NextLifecycle]_vars


(***************************************************************************)
(* Properties.                                                             *)
(***************************************************************************)
\* the paths of the style table st that carry the highlighted style
Highlighted(st) == {l \in DOMAIN st : st[l] = HighlightStyle}

\* C1: whenever the selection carries a country (one the loaded geometry has a
\* path for), the stored highlighted path is the path of exactly that country.
C1_SelectionMatchesHighlight ==
    (selected.country # NULL /\ \E l \in Layers : LayerCountry(l) = selected.country) =>
        /\ selectedLayerRef # NoLayer
        /\ LayerCountry(selectedLayerRef) = selected.country

\* C2: at most one path carries the highlighted style, after every handler and
\* after every setStyle call inside a handler; when selectCountry replaces a
\* highlighted path, the old path is restored (no path highlighted) before the
\* new one is highlighted.
C2_AtMostOneHighlighted ==
    /\ Cardinality(Highlighted(style)) <= 1
    /\ \A i \in 1..Len(styleLog) : Cardinality(Highlighted(styleLog[i])) <= 1
    /\ (lastOp.name = "pathClick" /\ Len(styleLog) = 2) =>
          /\ Highlighted(styleLog[1]) = {}
          /\ Highlighted(styleLog[2]) = {lastOp.args[2]}

\* a second country was clicked while another path was the highlighted one
C2_Witness ==
    /\ lastOp.name = "pathClick"
    /\ Len(styleLog) = 2
    /\ \E l \in Layers : l # selectedLayerRef /\ styleLog[1][l] = DefaultStyle
                         /\ LayerCountry(l) # NULL

\* C3: a selected place comes with a selected city and a selected city with a
\* selected country; the city is one of the country's cities and the place one
\* of the city's places.
C3_SelectionNesting ==
    /\ selected.place # NULL => selected.city # NULL
    /\ selected.city # NULL => selected.country # NULL
    /\ selected.city # NULL => selected.city \in Cities(selected.country)
    /\ selected.place # NULL => selected.place \in Places(selected.city)

\* back() was pressed on a place selection
C3_Witness ==
    /\ lastOp.name = "back"
    /\ backRun.n = 1
    /\ Level(backRun.sel) = 3
    /\ selected.city # NULL


\* a step of handleBack
BackStep == lastOp'.name = "back"

\* C4: back() goes up exactly one level.  From a place selection only the place
\* is dropped, from a city selection the city (and place), and in both cases
\* the path styles and the stored highlighted path are unchanged; from a
\* country selection the selection becomes empty, the highlighted path gets
\* the default style back and the stored reference is cleared.
C4_BackOneLevel ==
    [][BackStep =>
        /\ Level(selected) = 3 =>
              /\ selected'.country = selected.country
              /\ selected'.city = selected.city
              /\ selected'.place = NULL
              /\ UNCHANGED <<selectedLayerRef, style>>
        /\ Level(selected) = 2 =>
              /\ selected'.country = selected.country
              /\ selected'.city = NULL
              /\ selected'.place = NULL
              /\ UNCHANGED <<selectedLayerRef, style>>
        /\ Level(selected) = 1 =>
              /\ selected' = NoSelection
              /\ selectedLayerRef' = NoLayer
              /\ \A l \in Layers :
                    style'[l] = IF l = selectedLayerRef THEN DefaultStyle ELSE style[l]
      ]_vars

\* back() was pressed on a country selection whose path was highlighted
C4_Witness ==
    /\ lastOp.name = "back"
    /\ backRun.n = 1
    /\ Level(backRun.sel) = 1
    /\ backRun.ref # NoLayer
    /\ backRun.st[backRun.ref] = HighlightStyle

\* C5 as claimed: from a place selection, two back() calls in a row end with
\* nothing selected and the country path unhighlighted by the second call.
C5_TwoBacksReachNone ==
    (backRun.n = 2 /\ Level(backRun.sel) = 3) =>
        /\ selected = NoSelection
        /\ selectedLayerRef = NoLayer

\* C5 as amended: from a place selection, the first back() leaves the city
\* selected and the second leaves the country selected, neither touching the
\* path styles or the stored highlighted path; the third ends with nothing
\* selected, the stored path restored to the default style and forgotten.
C5_ThreeBacksReachNone ==
    Level(backRun.sel) = 3 =>
        /\ backRun.n = 1 =>
              /\ selected = [backRun.sel EXCEPT !.place = NULL]
              /\ selectedLayerRef = backRun.ref
              /\ style = backRun.st
        /\ backRun.n = 2 =>
              /\ selected = [backRun.sel EXCEPT !.city = NULL, !.place = NULL]
              /\ selectedLayerRef = backRun.ref
              /\ style = backRun.st
        /\ backRun.n = 3 =>
              /\ selected = NoSelection
              /\ selectedLayerRef = NoLayer
              /\ Highlighted(style) = {}
              /\ backRun.ref # NoLayer => style[backRun.ref] = DefaultStyle

\* three back() calls in a row from a place selection with a highlighted path
C5_Witness ==
    /\ backRun.n = 3
    /\ Level(backRun.sel) = 3
    /\ backRun.ref # NoLayer
    /\ backRun.st[backRun.ref] = HighlightStyle

\* C6: after close() nothing is selected, no path carries the highlighted
\* style and the stored highlighted path is cleared.
C6_CloseClearsAll ==
    lastOp.name = "close" =>
        /\ selected = NoSelection
        /\ selectedLayerRef = NoLayer
        /\ Highlighted(style) = {}

\* close() ran while a path was highlighted
C6_Witness ==
    /\ lastOp.name = "close"
    /\ Len(styleLog) = 1
    /\ \E l \in Layers : LayerCountry(l) # NULL /\ styleLog[1][l] = DefaultStyle

\* a step of selectCountry(id, layer), from a path click or called directly
SelectCountryStep == lastOp'.name \in {"pathClick", "selectCountry"}

\* C7: selectCountry(id, layer) with a known id ends with that country
\* selected, city and place empty, the given path stored and highlighted, and
\* the previously stored path, if another one, in the default style.
C7_SelectCountrySuccess ==
    [][(SelectCountryStep /\ countryMap(lastOp'.args[1]) # NULL) =>
        /\ selected' = [country |-> countryMap(lastOp'.args[1]),
                        city |-> NULL, place |-> NULL]
        /\ selectedLayerRef' = lastOp'.args[2]
        /\ style'[lastOp'.args[2]] = HighlightStyle
        /\ (selectedLayerRef # NoLayer /\ selectedLayerRef # lastOp'.args[2]) =>
              style'[selectedLayerRef] = DefaultStyle
      ]_vars

\* selectCountry succeeded while another path was the highlighted one
C7_Witness ==
    /\ lastOp.name = "selectCountry"
    /\ countryMap(lastOp.args[1]) # NULL
    /\ Len(styleLog) = 2
    /\ selectedLayerRef = lastOp.args[2]

\* C8: selectCountry with an id that is not in the dataset changes neither
\* the selection nor the stored highlighted path nor any path style.
C8_SelectCountryUnknownId ==
    [][(SelectCountryStep /\ countryMap(lastOp'.args[1]) = NULL) =>
        UNCHANGED <<selected, selectedLayerRef, style>>
      ]_vars

\* selectCountry was called with an unknown id while a city was selected
C8_Witness ==
    /\ lastOp.name = "selectCountry"
    /\ countryMap(lastOp.args[1]) = NULL
    /\ selected.city # NULL
    /\ selectedLayerRef # NoLayer
    /\ selectedLayerRef # lastOp.args[2]


Abs(x) == IF x < 0 THEN -x ELSE x

\* every longitude of ring r is a valid one
ValidLongitudes(r) == \A i \in 1..Len(r) : r[i][1] >= -180 /\ r[i][1] <= 180

\* the indices 2..i of r whose raw step down (up) is larger than 180
JumpsDown(r, i) == {k \in 2..i : r[k][1] - r[k - 1][1] < -180}
JumpsUp(r, i) == {k \in 2..i : r[k][1] - r[k - 1][1] > 180}

\* C9: for a ring of at least 2 points with longitudes in [-180, 180], every
\* two consecutive points of the corrected ring are at most 180 apart in
\* longitude.
C9_Continuity ==
    (ringPc = "done" /\ Len(ring) >= 2 /\ ValidLongitudes(ring)) =>
        \A i \in 2..Len(out) : Abs(out[i][1] - out[i - 1][1]) <= 180

\* a corrected ring of valid longitudes with two raw jumps over the antimeridian
C9_Witness ==
    /\ ringPc = "done"
    /\ ValidLongitudes(ring)
    /\ Cardinality(JumpsDown(ring, Len(ring)) \cup JumpsUp(ring, Len(ring))) >= 2

\* C10: the corrected ring has as many points as the input, the same first
\* point and the same latitudes, and the longitude of point i is the input
\* longitude plus 360 times (raw steps below -180 minus raw steps above 180, up
\* to i); a ring of fewer than 2 points is returned as it is; the ring
\* [[170,10],[-170,10],[170,-10]] becomes [[170,10],[190,10],[170,-10]].
C10_RunningOffsetReference ==
    ringPc = "done" =>
        /\ Len(out) = Len(ring)
        /\ Len(ring) >= 1 => out[1] = ring[1]
        /\ \A i \in 1..Len(ring) :
              /\ out[i][2] = ring[i][2]
              /\ out[i][1] = ring[i][1]
                    + 360 * (Cardinality(JumpsDown(ring, i)) - Cardinality(JumpsUp(ring, i)))
        /\ Len(ring) < 2 => out = ring
        /\ ring = << <<170, 10>>, <<-170, 10>>, <<170, -10>> >> =>
              out = << <<170, 10>>, <<190, 10>>, <<170, -10>> >>

\* the ring of the example has been corrected
C10_Witness ==
    /\ ringPc = "done"
    /\ ring = << <<170, 10>>, <<-170, 10>>, <<170, -10>> >>
    /\ out[2][1] = 190


\* ring r is closed: its first and last points are equal
Closed(r) == Len(r) >= 1 /\ r[1] = r[Len(r)]

\* C11 as claimed: a closed ring of valid longitudes is closed after correction.
C11_ClosurePreserved ==
    (ringPc = "done" /\ Closed(ring) /\ ValidLongitudes(ring)) => Closed(out)

\* C11 as amended: for a closed ring of valid longitudes, the last corrected
\* point has the latitude of the first and its longitude plus 360 times (raw
\* steps below -180 minus raw steps above 180); the corrected ring is closed
\* exactly when the two counts are equal.
C11_ClosureUpToTurns ==
    (ringPc = "done" /\ Closed(ring) /\ ValidLongitudes(ring)) =>
        LET n == Len(ring)
            turns == Cardinality(JumpsDown(ring, n)) - Cardinality(JumpsUp(ring, n))
        IN  /\ out[n][2] = out[1][2]
            /\ out[n][1] = out[1][1] + 360 * turns
            /\ Closed(out) <=> turns = 0

\* a closed ring going once around the globe, and so left open by the correction
C11_Witness ==
    /\ ringPc = "done"
    /\ Closed(ring)
    /\ ValidLongitudes(ring)
    /\ Len(ring) = 4
    /\ out[4][1] = out[1][1] + 360

\* ring r has no raw step larger than 180 in absolute value
NoRawJump(r) == \A i \in 2..Len(r) : Abs(r[i][1] - r[i - 1][1]) <= 180

\* C12: a ring without a raw step larger than 180 is returned with identical
\* coordinates, and so is the result when it is corrected again.
C12_IdentityOnContinuous ==
    (ringPc = "done" /\ NoRawJump(ring)) =>
        /\ out = ring
        /\ makeContinuous(out) = out

\* a corrected ring of three points or more whose raw steps reach exactly 180
C12_Witness ==
    /\ ringPc = "done"
    /\ NoRawJump(ring)
    /\ Len(ring) >= 3
    /\ \E i \in 2..Len(ring) : ring[i][1] - ring[i - 1][1] = 180
    /\ \E i \in 2..Len(ring) : ring[i][1] - ring[i - 1][1] = -180
    /\ out = ring


\* the (country, city) pairs and (country, city, place) triples of the dataset
AllCities == {x \in Countries \X (DOMAIN CityData) : x[2] \in Cities(x[1])}
AllPlaces == {x \in Countries \X (DOMAIN CityData) \X (DOMAIN PlaceData) :
                 x[2] \in Cities(x[1]) /\ x[3] \in Places(x[2])}

\* the markers of the sequence ms owned by city x (place x)
CityMarkersOf(ms, x) ==
    {m \in 1..Len(ms) : ms[m].country = x[1] /\ ms[m].city = x[2]}
PlaceMarkersOf(ms, x) ==
    {m \in 1..Len(ms) : ms[m].country = x[1] /\ ms[m].city = x[2] /\ ms[m].place = x[3]}

\* the visibility thresholds, as stated, for the city markers cs and the place
\* markers ps made at zoom z
VisibleAsStated(z, cs, ps) ==
    /\ z < 4 => cs = <<>>
    /\ z >= 4 =>
          /\ Len(cs) = Cardinality(AllCities)
          /\ \A x \in AllCities : Cardinality(CityMarkersOf(cs, x)) = 1
    /\ z < 10 => ps = <<>>
    /\ z >= 10 =>
          /\ Len(ps) = Cardinality(AllPlaces)
          /\ \A x \in AllPlaces : Cardinality(PlaceMarkersOf(ps, x)) = 1

\* C13: at every zoom of 2..19 and every selection, the recomputation gives no
\* city marker below zoom 4 and from zoom 4 on exactly one per city of every
\* country; no place marker below zoom 10 and from zoom 10 on exactly one per
\* place of every city that has places.  It holds of the plan for the zoom and
\* selection of every state, and of the markers on the map whenever the marker
\* effect is not due.
C13_MarkerVisibility ==
    /\ zoom \in MinZoom..MaxZoom
    /\ \A cs \in {CityPlan(zoom, selected)} : \A ps \in {PlacePlan(zoom, selected)} :
          VisibleAsStated(zoom, cs, ps)
    /\ ~effectDue => VisibleAsStated(zoom, cityMarkers, placeMarkers)

\* the marker effect ran at zoom 4 with a city selected: city markers only
C13_Witness ==
    /\ lastOp.name = "markerEffect"
    /\ zoom = 4
    /\ selected.city # NULL
    /\ Len(cityMarkers) = 3
    /\ placeMarkers = <<>>

\* the label policy, as stated, for a city and for a place
CityLabelPermanent(z, subs) ==
    \/ z >= 10
    \/ z >= 8 /\ z < 10 /\ subs >= 30000
    \/ z >= 6 /\ z < 8 /\ subs >= 100000

PlaceLabelPermanent(z, subs) ==
    \/ z >= 14
    \/ z >= 12 /\ z < 14 /\ subs >= 3000

\* the label policy, as stated, for the city markers cs and the place markers
\* ps made at zoom z
LabelsAsStated(z, cs, ps) ==
    /\ \A m \in 1..Len(cs) :
          cs[m].permanent <=> CityLabelPermanent(z, CityData[cs[m].city].subscribers)
    /\ \A m \in 1..Len(ps) :
          ps[m].permanent <=> PlaceLabelPermanent(z, PlaceData[ps[m].place].subscribers)

\* every marker of cs and ps has one label: the name when permanent, the
\* community identifier when hover-only
OneLabelEach(cs, ps) ==
    /\ \A m \in 1..Len(cs) :
          LET c == CityData[cs[m].city] IN
          cs[m].tooltip = IF cs[m].permanent THEN <<c.name>> ELSE <<"r/", c.subreddit>>
    /\ \A m \in 1..Len(ps) :
          LET pl == PlaceData[ps[m].place] IN
          ps[m].tooltip = IF ps[m].permanent THEN <<pl.name>> ELSE <<"r/", pl.subreddit>>

\* C14: every marker has one label, the permanent name label or the hover label
\* with the community identifier, and the label is permanent exactly when the
\* policy says so for the zoom, whatever the selection.  It holds of the plan
\* for the zoom and selection of every state; the markers on the map have one
\* label each in every state, and follow the policy of the current zoom whenever
\* the marker effect is not due.
C14_LabelPolicy ==
    /\ \A cs \in {CityPlan(zoom, selected)} : \A ps \in {PlacePlan(zoom, selected)} :
          /\ LabelsAsStated(zoom, cs, ps)
          /\ OneLabelEach(cs, ps)
    /\ OneLabelEach(cityMarkers, placeMarkers)
    /\ ~effectDue => LabelsAsStated(zoom, cityMarkers, placeMarkers)

\* zoom 12 with a place selected: permanent and hover-only place labels together
C14_Witness ==
    /\ ~effectDue
    /\ zoom = 12
    /\ selected.place # NULL
    /\ \E m \in 1..Len(placeMarkers) : placeMarkers[m].permanent
    /\ \E m \in 1..Len(placeMarkers) : ~placeMarkers[m].permanent
    /\ \A m \in 1..Len(cityMarkers) : cityMarkers[m].permanent

\* every marker of the plan (cs, ps) is in the plan (cs2, ps2), and one with a
\* permanent label has a permanent label there
PlanWithin(cs, ps, cs2, ps2) ==
    /\ Len(cs2) >= Len(cs)
    /\ Len(ps2) >= Len(ps)
    /\ \A m \in 1..Len(cs) :
          \E k \in 1..Len(cs2) :
              /\ cs2[k].country = cs[m].country
              /\ cs2[k].city = cs[m].city
              /\ cs[m].permanent => cs2[k].permanent
    /\ \A m \in 1..Len(ps) :
          \E k \in 1..Len(ps2) :
              /\ ps2[k].country = ps[m].country
              /\ ps2[k].city = ps[m].city
              /\ ps2[k].place = ps[m].place
              /\ ps[m].permanent => ps2[k].permanent

\* C15: with the selection fixed, every marker planned at a zoom z is planned
\* at every higher zoom z2, and one with a permanent label keeps it.  z is the
\* zoom of the state, which takes every level of 2..19 under every selection.
C15_LodMonotone ==
    \A cs \in {CityPlan(zoom, selected)} : \A ps \in {PlacePlan(zoom, selected)} :
        \A z2 \in (zoom + 1)..MaxZoom :
            \A cs2 \in {CityPlan(z2, selected)} : \A ps2 \in {PlacePlan(z2, selected)} :
                PlanWithin(cs, ps, cs2, ps2)

\* zoom 6 with a city selected: one permanent city label, the others hover-only
C15_Witness ==
    /\ ~effectDue
    /\ zoom = 6
    /\ cityMarkers = CityPlan(6, selected)
    /\ selected.city # NULL
    /\ \E m \in 1..Len(cityMarkers) : cityMarkers[m].permanent
    /\ \E m \in 1..Len(cityMarkers) : ~cityMarkers[m].permanent


\* a step of selectCity or selectPlace, from a marker or from the panel
SelectChildStep ==
    lastOp'.name \in {"cityMarkerClick", "placeMarkerClick",
                      "panelCityClick", "panelPlaceClick"}

\* C16: selectCity and selectPlace change no path style and leave the stored
\* highlighted path as it is.
C16_SelectChildKeepsHighlight ==
    [][SelectChildStep => UNCHANGED <<style, selectedLayerRef>>]_vars

\* a city marker of another country was clicked while a path was highlighted
C16_Witness ==
    /\ lastOp.name = "cityMarkerClick"
    /\ selectedLayerRef # NoLayer
    /\ style[selectedLayerRef] = HighlightStyle
    /\ LayerCountry(selectedLayerRef) # selected.country

\* a mouseover or mouseout step on the stored highlighted path
HoverOnSelectedStep ==
    /\ lastOp'.name \in {"mouseover", "mouseout"}
    /\ lastOp'.args[1] = selectedLayerRef

\* C17: the stored highlighted path always carries the highlighted style, and a
\* mouseover or mouseout on it changes no style.
C17_HoverKeepsHighlight ==
    /\ [](selectedLayerRef # NoLayer => style[selectedLayerRef] = HighlightStyle)
    /\ [][HoverOnSelectedStep => UNCHANGED style]_vars

\* the pointer left the highlighted path while another path was in hover style
C17_Witness ==
    /\ lastOp.name = "mouseout"
    /\ lastOp.args[1] = selectedLayerRef
    /\ style[selectedLayerRef] = HighlightStyle
    /\ \E l \in Layers : style[l] = HoverStyle


\* C18: a city marker is drawn as selected exactly when its city is the
\* selected city of the selected country, a place marker exactly when its
\* place is the selected place of the selected city of the selected country;
\* so at most one city marker and one place marker are drawn as selected.
C18_SelectedMarkerIdentity ==
    /\ \A m \in 1..Len(cityMarkers) :
          cityMarkers[m].isActive <=>
              /\ cityMarkers[m].country = selected.country
              /\ cityMarkers[m].city = selected.city
    /\ \A m \in 1..Len(placeMarkers) :
          placeMarkers[m].isActive <=>
              /\ placeMarkers[m].country = selected.country
              /\ placeMarkers[m].city = selected.city
              /\ placeMarkers[m].place = selected.place
    /\ Cardinality({m \in 1..Len(cityMarkers) : cityMarkers[m].isActive}) <= 1
    /\ Cardinality({m \in 1..Len(placeMarkers) : placeMarkers[m].isActive}) <= 1

\* C19: once the recomputation triggered by the last change has run (the
\* marker effect is not due), the two marker groups are exactly the plan of
\* the current zoom and selection, nothing of an earlier plan being left, and
\* planning again from the same zoom and selection gives the same groups;
\* with no setZoom waiting either, the current zoom is the zoom of the map.
C19_NoStaleMarkers ==
    /\ ~effectDue =>
          /\ cityMarkers = CityPlan(zoom, selected)
          /\ placeMarkers = PlacePlan(zoom, selected)
          /\ Len(cityMarkers) <= Cardinality(AllCities)
          /\ Len(placeMarkers) <= Cardinality(AllPlaces)
          /\ zoom < PlaceMinZoom => placeMarkers = <<>>
          /\ zoom < CityMinZoom => cityMarkers = <<>>
    /\ (~effectDue /\ pendingZoom = NoZoom) =>
          /\ zoom = mapZoom
          /\ cityMarkers = CityPlan(mapZoom, selected)
          /\ placeMarkers = PlacePlan(mapZoom, selected)

\* the marker effect ran after zooming out below 10 with a place still
\* selected: the place markers are gone
C19_Witness ==
    /\ lastOp.name = "markerEffect"
    /\ pendingZoom = NoZoom
    /\ zoom = 9
    /\ selected.place # NULL
    /\ placeMarkers = <<>>
    /\ Len(cityMarkers) = 3

\* the paths L.geoJSON created for country c
PathsOf(c) == {l \in Layers : geoFeatures[l] = CountryData[c].id}

\* the dataset countries whose id is among the features the fetch of the last
\* mount answered with
FetchedCountries == {c \in Countries : CountryData[c].id \in Range(fetched[mapCount])}

\* C20: the registry is empty until the fetch has resolved and, with it,
\* there is no path, no highlighted path and no stored path; once resolved it
\* maps the id and the id without leading zeros of every country among the
\* fetched features to that country's path, and holds nothing for any other
\* feature.
C20_RegistrationAllOrNothing ==
    /\ fetchState \in {"pending", "rejected"} =>
          /\ countryLayersRef = <<>>
          /\ Layers = {}
          /\ selectedLayerRef = NoLayer
    /\ fetchState = "resolved" =>
          /\ \A c \in FetchedCountries :
                /\ CountryData[c].id \in DOMAIN countryLayersRef
                /\ StrippedId(CountryData[c].id) \in DOMAIN countryLayersRef
                /\ countryLayersRef[CountryData[c].id] \in PathsOf(c)
                /\ countryLayersRef[StrippedId(CountryData[c].id)] \in PathsOf(c)
          /\ \A k \in DOMAIN countryLayersRef :
                /\ countryLayersRef[k] \in Interactive
                /\ k \in {CountryData[LayerCountry(countryLayersRef[k])].id,
                          StrippedId(CountryData[LayerCountry(countryLayersRef[k])].id)}
          /\ \A l \in Layers \ Interactive :
                /\ style[l] = HiddenStyle
                /\ l # selectedLayerRef
    /\ Highlighted(style) \subseteq Interactive

(***************************************************************************)
(* C21.  Teardown is final with respect to the geometry load.              *)
(***************************************************************************)
\* this step is the fetch of the removed instance m completing
LateCompletion(m) ==
    /\ m \in removed
    /\ fetches[m] = "pending"
    /\ fetches'[m] = "resolved"

\* the registry holds paths of the live instance only
RegistryIsLive ==
    \A k \in DOMAIN countryLayersRef : layerMap[countryLayersRef[k]] = mapRef

\* C21: when the fetch of a removed map completes, the registry does not
\* change, no path gets handlers and no layer is put on the removed map; and
\* once the surface has been mounted again, every path in the registry
\* belongs to the live map.
C21_TeardownFinal ==
    /\ [][\A m \in 1..mapCount :
             LateCompletion(m) =>
                 /\ countryLayersRef' = countryLayersRef
                 /\ Interactive' = Interactive
                 /\ mapLayers' = mapLayers]_vars
    /\ []((mapCount > 1 /\ mapRef # NoMap) => RegistryIsLive)

=============================================================================
